---- MODULE Spec2Model ----
(***************************************************************************)
(* A model of fibgrid: the Fibonacci lattice construction                  *)
(* (fibgrid/construction.py) and the reading of pre-computed grid files    *)
(* through the on-disk cache (fibgrid/realization.py).                     *)
(*                                                                         *)
(* Floating point values are modelled in fixed point: angles in 1/100 of   *)
(* a degree, the golden ratio and sines in 1/10000.                        *)
(***************************************************************************)
EXTENDS Integers, Sequences, FiniteSets

VARIABLES
    \* ---- construction.py: one call of compute_fib_grid[_wgs84]
    lpc,        \* position of the call: idle, loop, ret, transform, ret_wgs84
    entry,      \* the function called: "fib" or "wgs84"
    n_arg,      \* the argument n
    points,     \* np.arange(-n, n + 1)
    gpi,        \* np.arange(points.size)
    lat,        \* the lat array (np.empty)
    lon,        \* the lon array (np.empty)
    it,         \* number of iterations the loop over points has done
    rawlon,     \* history: value first stored in lon[i] (line 64), per position
    wlat,       \* history: the i's whose iteration wrote lat at each position
    wlon,       \* history: the i's whose iteration wrote lon at each position
    wgs84_lat,  \* compute_fib_grid_wgs84: output latitude array
    wgs84_lon,  \* compute_fib_grid_wgs84: output longitude array
    wi          \* compute_fib_grid_wgs84: the counter i of the transform loop

VARIABLES
    \* ---- realization.py: the cache directory and the calls of the processes
    cache,        \* CACHE_DIR: file name -> "absent", "partial" or "complete"
    last_trunc,   \* file name -> the process whose open(filename, "wb") came last and
                  \* is still writing (0: none)
    dir_exists,   \* whether CACHE_DIR exists
    call,         \* process -> the state of its FibGrid / FibLandGrid call
    result,       \* process -> the grid built from what read_grid_file returned
    calls,        \* process -> number of calls it has made
    returned_ok,  \* history: file names for which a read_grid_file call has returned
    latband_sorting,  \* the artifact's variable latband_sorting
    land_flag         \* the artifact's variable land_flag

lvars == <<lpc, entry, n_arg, points, gpi, lat, lon, it, rawlon, wlat, wlon,
           wgs84_lat, wgs84_lon, wi>>

gvars == <<cache, last_trunc, dir_exists, call, result, calls, returned_ok,
           latband_sorting, land_flag>>

vars == <<lvars, gvars>>

----------------------------------------------------------------------------
(* Bounds of the model *)

\* n is drawn from -MaxNeg..MaxN
MaxN == 8
MaxNeg == 2
\* each process makes at most MaxCalls calls
MaxCalls == 3
\* the artifact holds NPoints grid points
NPoints == 3

----------------------------------------------------------------------------
(* Fixed-point arithmetic *)

\* sines, radians and the golden ratio are held in units of 1/FScale
FScale == 10 ^ 4
\* angles are held in units of 1/AScale degree
AScale == 10 ^ 2
Deg(d) == d * AScale
\* the result of arcsin outside [-1, 1]
NaN == 10 ^ 6
\* np.pi in units of 1/FScale
PI == 31416
\* phi = (1.0 + np.sqrt(5)) / 2.0 in units of 1/FScale
PHI == 16180

FMul(a, b) == (a * b) \div FScale

\* sin of an angle a in 0..Deg(90), by its Taylor series in Horner form
Sin(a) ==
    LET r  == (a * PI) \div (180 * AScale)
        r2 == FMul(r, r)
        t4 == FScale - r2 \div 72
        t3 == FScale - FMul(r2 \div 42, t4)
        t2 == FScale - FMul(r2 \div 20, t3)
        t1 == FScale - FMul(r2 \div 6, t2)
    IN  FMul(r, t1)

\* the largest angle in lo..hi whose sine is at most num/den (bisection)
RECURSIVE ArcsinSearch(_, _, _, _)
ArcsinSearch(num, den, lo, hi) ==
    IF lo >= hi THEN lo
    ELSE LET mid == (lo + hi + 1) \div 2
         IN  IF Sin(mid) * den <= num * FScale
             THEN ArcsinSearch(num, den, mid, hi)
             ELSE ArcsinSearch(num, den, lo, mid - 1)

\* np.arcsin(num / den) * 180.0 / np.pi; odd, NaN outside the domain
ArcsinDeg(num, den) ==
    IF num > den \/ -num > den THEN NaN
    ELSE IF num >= 0 THEN ArcsinSearch(num, den, 0, Deg(90))
    ELSE -ArcsinSearch(-num, den, 0, Deg(90))

\* a faulty variant of ModFloor: the truncating modulo (C fmod), sign of the dividend
ModTrunc(a, b) == IF a >= 0 THEN a % b ELSE -((-a) % b)

\* np.mod(a, b) for b > 0: floor-based, result in [0, b)
ModFloor(a, b) == a % b

----------------------------------------------------------------------------
(* compute_fib_grid *)

\* a faulty variant of Arange: the end value is included
ArangeInclusive(a, b) == [k \in 0..(b - a) |-> a + k]

\* np.arange(a, b): a, a+1, ..., b-1 (empty when b <= a), positions from 0
Arange(a, b) == [k \in 0..(b - a - 1) |-> a + k]

Size(arr) == Cardinality(DOMAIN arr)

\* the contents of memory that np.empty hands out: any of these fills
GarbageFills == {0, 1, 2}
Garbage(p, k) ==
    CASE p = 0 -> 0
      [] p = 1 -> NaN
      [] OTHER -> -(Deg(200) + k)

\* np.empty(size): an array whose contents are whatever the memory held
Empty(size, p) == [k \in 0..(size - 1) |-> Garbage(p, k)]

\* a faulty variant of Index: a negative subscript addresses position -i
IndexAbs(i, size) == IF i < 0 THEN -i ELSE i

\* the position arr[i] addresses: a negative i counts from the end
Index(i, size) == IF i < 0 THEN i + size ELSE i

\* line 63: np.arcsin((2 * i) / (2 * n + 1)) * 180.0 / np.pi
LatOf(i, n) == ArcsinDeg(2 * i, 2 * n + 1)

\* line 64: np.mod(i, phi) * 360.0 / phi
RawLonOf(i) == (ModFloor(i * FScale, PHI) * Deg(360)) \div PHI

\* lines 65-68: the two wrap statements, one after the other
Wrap(x) ==
    LET y == IF x < -Deg(180) THEN x + Deg(360) ELSE x
    IN  IF y > Deg(180) THEN y - Deg(360) ELSE y

LonOf(i) == Wrap(RawLonOf(i))

\* a call of compute_fib_grid(n), directly or from compute_fib_grid_wgs84:
\* lines 56-60, the allocation of the four arrays. No check of n is made.
Call ==
    /\ lpc = "idle"
    /\ \E n \in -MaxNeg..MaxN, e \in {"fib", "wgs84"}, p \in GarbageFills, q \in GarbageFills :
          LET pts == Arange(-n, n + 1) IN
          /\ n_arg' = n
          /\ entry' = e
          /\ points' = pts
          /\ gpi' = Arange(0, Size(pts))
          /\ lat' = Empty(Size(pts), p)
          /\ lon' = Empty(Size(pts), q)
          /\ rawlon' = [k \in DOMAIN pts |-> 0]
          /\ wlat' = [k \in DOMAIN pts |-> <<>>]
          /\ wlon' = [k \in DOMAIN pts |-> <<>>]
    /\ it' = 0
    /\ lpc' = "loop"
    /\ UNCHANGED <<wgs84_lat, wgs84_lon, wi>>
    /\ UNCHANGED gvars

\* one iteration of `for i in points` (lines 62-68)
LoopStep ==
    /\ lpc = "loop"
    /\ it < Size(points)
    /\ LET i   == points[it]
           pos == Index(i, Size(points))
       IN  /\ lat' = [lat EXCEPT ![pos] = LatOf(i, n_arg)]
           /\ lon' = [lon EXCEPT ![pos] = Wrap(RawLonOf(i))]
           /\ rawlon' = [rawlon EXCEPT ![pos] = RawLonOf(i)]
           /\ wlat' = [wlat EXCEPT ![pos] = Append(@, i)]
           /\ wlon' = [wlon EXCEPT ![pos] = Append(@, i)]
    /\ it' = it + 1
    /\ UNCHANGED <<lpc, entry, n_arg, points, gpi, wgs84_lat, wgs84_lon, wi>>
    /\ UNCHANGED gvars

\* line 70: return points, gpi, lon, lat
Return ==
    /\ lpc = "loop"
    /\ it = Size(points)
    /\ lpc' = "ret"
    /\ UNCHANGED <<entry, n_arg, points, gpi, lat, lon, it, rawlon, wlat, wlon,
                   wgs84_lat, wgs84_lon, wi>>
    /\ UNCHANGED gvars

----------------------------------------------------------------------------
(* compute_fib_grid_wgs84 *)

\* transformer.transform(lon, lat) from the sphere to EPSG:4326, which
\* returns (lat, lon): the longitude is kept, the latitude moves towards the
\* pole by at most about 0.19 degree (largest at 45 degrees)
Transform(lo, la) ==
    LET a == IF la >= 0 THEN la ELSE -la
        d == IF a <= Deg(45) THEN (19 * Sin(2 * a)) \div FScale
             ELSE (19 * Sin(Deg(180) - 2 * a)) \div FScale
    IN  <<IF la >= 0 THEN la + d ELSE la - d, lo>>

\* lines 88-91: the output arrays are allocated zeroed, i = 0
TransformStart ==
    /\ lpc = "ret"
    /\ entry = "wgs84"
    /\ wgs84_lon' = [k \in DOMAIN lon |-> 0]
    /\ wgs84_lat' = [k \in DOMAIN lat |-> 0]
    /\ wi' = 0
    /\ lpc' = "transform"
    /\ UNCHANGED <<entry, n_arg, points, gpi, lat, lon, it, rawlon, wlat, wlon>>
    /\ UNCHANGED gvars

\* lines 92-94: one iteration of the loop over zip(sphere_lon, sphere_lat)
TransformStep ==
    /\ lpc = "transform"
    /\ wi < Size(lon)
    /\ LET t == Transform(lon[wi], lat[wi])
       IN  /\ wgs84_lat' = [wgs84_lat EXCEPT ![wi] = t[1]]
           /\ wgs84_lon' = [wgs84_lon EXCEPT ![wi] = t[2]]
    /\ wi' = wi + 1
    /\ UNCHANGED <<lpc, entry, n_arg, points, gpi, lat, lon, it, rawlon, wlat, wlon>>
    /\ UNCHANGED gvars

\* line 96: return points, gpi, wgs84_lon, wgs84_lat
TransformReturn ==
    /\ lpc = "transform"
    /\ wi = Size(lon)
    /\ lpc' = "ret_wgs84"
    /\ UNCHANGED <<entry, n_arg, points, gpi, lat, lon, it, rawlon, wlat, wlon,
                   wgs84_lat, wgs84_lon, wi>>
    /\ UNCHANGED gvars

----------------------------------------------------------------------------
(* realization.py: names, the artifact and what read_grid_file reads *)

Procs == {1, 2}

\* lines 152-157: the sampling distances, in 1/100 km, and their point counts
Res6_25 == 625
Res12_5 == 1250
Res25 == 2500
N6_25 == 6600000
N12_5 == 1650000
N25 == 430000
\* a sampling distance no grid exists for (50 km)
ResOther == 50 * 100

Ns == {N6_25, N12_5, N25}

\* a faulty variant of ResToN: the final else falls back to the coarsest grid
ResToNDefault(res) ==
    IF res = Res6_25 THEN N6_25
    ELSE IF res = Res12_5 THEN N12_5
    ELSE N25

\* lines 152-159 (and 189-196): the point count of a sampling, 0 when the
\* else branch raises ValueError("Resolution unknown")
ResToN(res) ==
    IF res = Res6_25 THEN N6_25
    ELSE IF res = Res12_5 THEN N12_5
    ELSE IF res = Res25 THEN N25
    ELSE 0

\* str.lower() on the geodatum strings of the model
Lower(g) ==
    CASE g = "WGS84" -> "wgs84"
      [] g = "Sphere" -> "sphere"
      [] OTHER -> g

\* line 81: CACHE_DIR / f"fibgrid_{geodatum.lower()}_n{n}.nc"
FileName(g, n) == <<Lower(g), n>>

\* lines 41-48: the keys of DATA_URL, f"n{n}_{geodatum.lower()}"
DATA_URL == {"sphere", "wgs84"} \X Ns

\* the file names the calls of the model can name
FileNames == {"sphere", "wgs84", "mars"} \X Ns

\* a faulty variant of Exists: the test of line 83 without its `not`
ExistsInverted(f) == cache[f] = "absent"

\* line 83: filename.exists()
Exists(f) == cache[f] # "absent"

\* lines 91, 94: the accepted values
Geodata == {"sphere", "WGS84"}
SortOrders == {"none", "latband"}

\* lines 97-103
metadata_fields == <<"land_frac_fw", "land_frac_hw", "land_mask_hw",
                     "land_mask_fw", "land_flag">>

Pos == 0..(NPoints - 1)

\* the permutations of the positions
Perms == {f \in [Pos -> Pos] : \A a, b \in Pos : f[a] = f[b] => a = b}

\* the variables of the artifact file: the arrays in their stored order
Artifact ==
    [lon |-> [k \in Pos |-> Deg(10) * k - Deg(5)],
     lat |-> [k \in Pos |-> Deg(20) - Deg(7) * k],
     cell |-> [k \in Pos |-> 100 + k \div 2],
     gpi |-> [k \in Pos |-> k],
     land_frac_fw |-> [k \in Pos |-> 10 + k],
     land_frac_hw |-> [k \in Pos |-> 20 + k],
     land_mask_hw |-> [k \in Pos |-> (k + 1) % 2],
     land_mask_fw |-> [k \in Pos |-> k % 2],
     land_flag |-> land_flag,
     latband_sorting |-> latband_sorting]

\* numpy's arr[idx] for an index array idx
Take(arr, idx) == [k \in DOMAIN idx |-> arr[idx[k]]]

\* a faulty variant of ReadArrays: gpi is returned in its stored order
ReadArraysGpiUnsorted(fp, sort_order) ==
    LET idx == fp[sort_order \o "_sorting"]
        sel(a) == IF sort_order # "none" THEN Take(a, idx) ELSE a
    IN  [lon |-> sel(fp.lon), lat |-> sel(fp.lat), cell |-> sel(fp.cell),
         gpi |-> fp.gpi,
         metadata |-> [f \in {metadata_fields[j] : j \in 1..Len(metadata_fields)}
                          |-> sel(fp[f])]]

\* lines 105-126: the arrays read from the open dataset fp, each indexed by
\* the stored sorting when a sort order is asked for
ReadArrays(fp, sort_order) ==
    IF sort_order # "none"
    THEN LET idx == fp[sort_order \o "_sorting"]
         IN  [lon |-> Take(fp.lon, idx), lat |-> Take(fp.lat, idx),
              cell |-> Take(fp.cell, idx), gpi |-> Take(fp.gpi, idx),
              metadata |-> [f \in {metadata_fields[j] : j \in 1..Len(metadata_fields)}
                               |-> Take(fp[f], idx)]]
    ELSE [lon |-> fp.lon, lat |-> fp.lat, cell |-> fp.cell, gpi |-> fp.gpi,
          metadata |-> [f \in {metadata_fields[j] : j \in 1..Len(metadata_fields)}
                           |-> fp[f]]]

\* line 202: np.nonzero(self.metadata["land_flag"])[0]
Subset(md) == {k \in DOMAIN md["land_flag"] : md["land_flag"][k] # 0}

\* lines 161-165 (198-204): the arrays handed to CellGrid, with the subset
\* of active points (every point for FibGrid, which passes no subset)
Grid(kind, r) ==
    [lon |-> r.lon, lat |-> r.lat, cell |-> r.cell, gpi |-> r.gpi,
     metadata |-> r.metadata,
     subset |-> IF kind = "FibLandGrid" THEN Subset(r.metadata) ELSE DOMAIN r.gpi]

NoResult == [lon |-> <<>>, lat |-> <<>>, cell |-> <<>>, gpi |-> <<>>,
             metadata |-> [f \in {metadata_fields[j] : j \in 1..Len(metadata_fields)}
                              |-> <<>>],
             subset |-> {}]

\* a process that is in no call
Idle == [pc |-> "idle", kind |-> "FibGrid", res |-> 0, geodatum |-> "WGS84",
         sort_order |-> "none", n |-> 0, err |-> "none",
         found_absent |-> FALSE, warned |-> FALSE, mkdir |-> FALSE,
         downloaded |-> FALSE, after_ok |-> FALSE]

filename(p) == FileName(call[p].geodatum, call[p].n)

Raise(p, e) == call' = [call EXCEPT ![p].pc = "raised", ![p].err = e]

----------------------------------------------------------------------------
(* FibGrid.__init__, FibLandGrid.__init__ and read_grid_file, step by step *)

\* lines 149-161 (187-198): the constructor maps res to n and calls
\* read_grid_file, or raises
Construct(p, kind, res, g, so) ==
    /\ call[p].pc = "idle"
    /\ calls[p] < MaxCalls
    /\ calls' = [calls EXCEPT ![p] = @ + 1]
    /\ LET c == [Idle EXCEPT !.kind = kind, !.res = res, !.geodatum = g,
                            !.sort_order = so, !.n = ResToN(res)]
       IN  IF ResToN(res) = 0
           THEN call' = [call EXCEPT ![p] = [c EXCEPT !.pc = "raised",
                                   !.err = "ValueError: Resolution unknown"]]
           ELSE call' = [call EXCEPT ![p] = [c EXCEPT !.pc = "exists",
                                   !.after_ok = FileName(g, c.n) \in returned_ok]]
    /\ result' = [result EXCEPT ![p] = NoResult]
    /\ UNCHANGED <<cache, last_trunc, dir_exists, returned_ok, latband_sorting, land_flag>>
    /\ UNCHANGED lvars

\* line 83: if not filename.exists()
CheckExists(p) ==
    /\ call[p].pc = "exists"
    /\ IF Exists(filename(p))
       THEN call' = [call EXCEPT ![p].pc = "validate",
                                 ![p].found_absent = cache[filename(p)] = "absent"]
       ELSE call' = [call EXCEPT ![p].pc = "warn",
                                 ![p].found_absent = cache[filename(p)] = "absent"]
    /\ UNCHANGED <<cache, last_trunc, dir_exists, result, calls, returned_ok,
                   latband_sorting, land_flag>>
    /\ UNCHANGED lvars

\* lines 84-87: warnings.warn(...)
Warn(p) ==
    /\ call[p].pc = "warn"
    /\ call' = [call EXCEPT ![p].pc = "mkdir", ![p].warned = TRUE]
    /\ UNCHANGED <<cache, last_trunc, dir_exists, result, calls, returned_ok,
                   latband_sorting, land_flag>>
    /\ UNCHANGED lvars

\* line 88: filename.parent.mkdir(parents=True, exist_ok=True)
Mkdir(p) ==
    /\ call[p].pc = "mkdir"
    /\ dir_exists' = TRUE
    /\ call' = [call EXCEPT ![p].pc = "urlretrieve", ![p].mkdir = TRUE]
    /\ UNCHANGED <<cache, last_trunc, result, calls, returned_ok,
                   latband_sorting, land_flag>>
    /\ UNCHANGED lvars

\* line 89: the lookup in DATA_URL raises KeyError for an unknown key;
\* otherwise urlretrieve opens the connection, then opens filename for
\* writing, which creates the file or empties it
UrlRetrieveOpen(p) ==
    /\ call[p].pc = "urlretrieve"
    /\ IF filename(p) \notin DATA_URL
       THEN /\ Raise(p, "KeyError")
            /\ UNCHANGED <<cache, last_trunc>>
       ELSE /\ call' = [call EXCEPT ![p].pc = "downloading", ![p].downloaded = TRUE]
            /\ cache' = [cache EXCEPT ![filename(p)] = "partial"]
            /\ last_trunc' = [last_trunc EXCEPT ![filename(p)] = p]
    /\ UNCHANGED <<dir_exists, result, calls, returned_ok, latband_sorting, land_flag>>
    /\ UNCHANGED lvars

\* line 89: urlretrieve fails to open the connection: no file is touched
UrlRetrieveRefused(p) ==
    /\ call[p].pc = "urlretrieve"
    /\ filename(p) \in DATA_URL
    /\ Raise(p, "URLError")
    /\ UNCHANGED <<cache, last_trunc, dir_exists, result, calls, returned_ok,
                   latband_sorting, land_flag>>
    /\ UNCHANGED lvars

\* line 89: urlretrieve has written its last block and returns. The file
\* holds every block when this process was the last to empty it.
UrlRetrieveDone(p) ==
    /\ call[p].pc = "downloading"
    /\ call' = [call EXCEPT ![p].pc = "validate"]
    /\ IF last_trunc[filename(p)] = p
       THEN /\ cache' = [cache EXCEPT ![filename(p)] = "complete"]
            /\ last_trunc' = [last_trunc EXCEPT ![filename(p)] = 0]
       ELSE UNCHANGED <<cache, last_trunc>>
    /\ UNCHANGED <<dir_exists, result, calls, returned_ok, latband_sorting, land_flag>>
    /\ UNCHANGED lvars

\* line 89: the connection breaks while urlretrieve writes: the exception
\* leaves the file as far as it was written
UrlRetrieveBroken(p) ==
    /\ call[p].pc = "downloading"
    /\ Raise(p, "ContentTooShortError")
    /\ last_trunc' = [last_trunc EXCEPT
                         ![filename(p)] = IF @ = p THEN 0 ELSE @]
    /\ UNCHANGED <<cache, dir_exists, result, calls, returned_ok,
                   latband_sorting, land_flag>>
    /\ UNCHANGED lvars

\* lines 91-95: the checks of geodatum and sort_order
Validate(p) ==
    /\ call[p].pc = "validate"
    /\ IF call[p].geodatum \notin Geodata
       THEN Raise(p, "ValueError: Geodatum unknown")
       ELSE IF call[p].sort_order \notin SortOrders
       THEN Raise(p, "ValueError: Grid point sort order unknown")
       ELSE call' = [call EXCEPT ![p].pc = "parse"]
    /\ UNCHANGED <<cache, last_trunc, dir_exists, result, calls, returned_ok,
                   latband_sorting, land_flag>>
    /\ UNCHANGED lvars

\* lines 107-126: netCDF4.Dataset(filename) and the reading of the arrays,
\* which the constructor hands to CellGrid (lines 161-165, 198-204);
\* a file that is not completely written cannot be read
Parse(p) ==
    /\ call[p].pc = "parse"
    /\ IF cache[filename(p)] = "complete"
       THEN /\ call' = [call EXCEPT ![p].pc = "returned"]
            /\ result' = [result EXCEPT ![p] =
                             Grid(call[p].kind, ReadArrays(Artifact, call[p].sort_order))]
            /\ returned_ok' = returned_ok \cup {filename(p)}
       ELSE /\ Raise(p, "OSError")
            /\ UNCHANGED <<result, returned_ok>>
    /\ UNCHANGED <<cache, last_trunc, dir_exists, calls, latband_sorting, land_flag>>
    /\ UNCHANGED lvars

\* the constructor returns (lines 165, 202-204) or the exception reaches the
\* caller: the process is free for its next call
Finish(p) ==
    /\ call[p].pc \in {"returned", "raised"}
    /\ call' = [call EXCEPT ![p] = Idle]
    /\ result' = [result EXCEPT ![p] = NoResult]
    /\ UNCHANGED <<cache, last_trunc, dir_exists, calls, returned_ok,
                   latband_sorting, land_flag>>
    /\ UNCHANGED lvars

----------------------------------------------------------------------------
(* Specifications *)

\* no call of compute_fib_grid is under way
LInit ==
    /\ lpc = "idle"
    /\ entry = "fib"
    /\ n_arg = 0
    /\ points = <<>>
    /\ gpi = <<>>
    /\ lat = <<>>
    /\ lon = <<>>
    /\ it = 0
    /\ rawlon = <<>>
    /\ wlat = <<>>
    /\ wlon = <<>>
    /\ wgs84_lat = <<>>
    /\ wgs84_lon = <<>>
    /\ wi = 0

\* the processes are idle and the artifact holds the given sorting and flags
GInitWith(files, sorting, flags) ==
    /\ cache = [f \in FileNames |-> IF f \in files THEN "complete" ELSE "absent"]
    /\ last_trunc = [f \in FileNames |-> 0]
    /\ dir_exists = (files # {})
    /\ call = [p \in Procs |-> Idle]
    /\ result = [p \in Procs |-> NoResult]
    /\ calls = [p \in Procs |-> 0]
    /\ returned_ok = {}
    /\ latband_sorting = sorting
    /\ land_flag = flags

\* a sorting by latitude of the artifact's points and its land flags
DefaultSorting == [k \in Pos |-> NPoints - 1 - k]
DefaultFlags == [k \in Pos |-> k % 2]

\* the cache directory does not exist yet
GInit == GInitWith({}, DefaultSorting, DefaultFlags)

\* the steps of the processes P, whose calls take their arguments from K, R, G, S
GNext(P, K, R, G, S) ==
    \E p \in P :
        \/ \E kind \in K, res \in R, g \in G, so \in S : Construct(p, kind, res, g, so)
        \/ CheckExists(p)
        \/ Warn(p)
        \/ Mkdir(p)
        \/ UrlRetrieveOpen(p)
        \/ UrlRetrieveRefused(p)
        \/ UrlRetrieveDone(p)
        \/ UrlRetrieveBroken(p)
        \/ Validate(p)
        \/ Parse(p)
        \/ Finish(p)

Kinds == {"FibGrid", "FibLandGrid"}
ResArgs == {Res6_25, Res12_5, Res25, ResOther}
GeodatumArgs == {"sphere", "WGS84", "wgs84", "mars"}
SortOrderArgs == {"none", "latband", "lonband"}

LNext ==
    \/ Call
    \/ LoopStep
    \/ Return
    \/ TransformStart
    \/ TransformStep
    \/ TransformReturn

\* one call of compute_fib_grid or compute_fib_grid_wgs84
InitLattice == LInit /\ GInit
SpecLattice == InitLattice /\ [][LNext]_vars

\* one process constructing grids one after the other
SeqNext == GNext({1}, Kinds, ResArgs, GeodatumArgs, SortOrderArgs)
InitGrid == LInit /\ GInit
SpecGrid == InitGrid /\ [][SeqNext]_vars

\* two processes constructing grids of one sampling against one cache
ConcNext == GNext(Procs, {"FibGrid"}, {Res25}, {"WGS84", "sphere"}, SortOrders)
InitConc == LInit /\ GInit
SpecConc == InitConc /\ [][ConcNext]_vars

\* two processes reading an artifact the cache holds, for every sorting and
\* every land flags the artifact may store
ReadInit ==
    \E sorting \in Perms, flags \in [Pos -> {0, 1}] :
        GInitWith({FileName("WGS84", N25)}, sorting, flags)
ReadNext ==
    \E p \in Procs :
        \/ \E so \in SortOrders : Construct(p, "FibGrid", Res25, "WGS84", so)
        \/ CheckExists(p)
        \/ Validate(p)
        \/ Parse(p)
        \/ Finish(p)
InitRead == LInit /\ ReadInit
SpecRead == InitRead /\ [][ReadNext]_vars

----------------------------------------------------------------------------
(* Claims about compute_fib_grid, checked under SpecLattice *)

\* compute_fib_grid has returned its four arrays
Returned == lpc \in {"ret", "transform", "ret_wgs84"}

\* C1: for n > 0, the latitude and longitude returned at every position k
\* are the ones computed from the signed index returned at the same position,
\* points[k] = k - n; for n = 1 position 0 holds arcsin(-2/3), position 1
\* holds 0 and position 2 holds arcsin(2/3).
C1_PositionsHoldOwnIndex ==
    (Returned /\ n_arg > 0) =>
        /\ \A k \in DOMAIN points :
              /\ lat[k] = LatOf(points[k], n_arg)
              /\ lon[k] = LonOf(points[k])
        /\ n_arg = 1 =>
              /\ lat[0] = ArcsinDeg(-2, 3)
              /\ lat[1] = 0
              /\ lat[2] = ArcsinDeg(2, 3)

\* C2: for n > 0, compute_fib_grid(n) returns exactly 2n+1 points: the
\* signed indices are -n, ..., n in that order, the grid point indices are
\* 0, ..., 2n in that order, and grid_point_index = signed_index + n.
C2_DenseIndices ==
    (lpc # "idle" /\ n_arg > 0) =>
        /\ DOMAIN points = 0..(2 * n_arg)
        /\ DOMAIN gpi = 0..(2 * n_arg)
        /\ DOMAIN lat = 0..(2 * n_arg)
        /\ DOMAIN lon = 0..(2 * n_arg)
        /\ \A k \in 0..(2 * n_arg) :
              /\ points[k] = k - n_arg
              /\ gpi[k] = k
              /\ gpi[k] = points[k] + n_arg

C2_Witness == lpc = "ret" /\ n_arg = 2 /\ Size(points) = 5

\* C3: for n > 0, every returned latitude is in [-90, 90] and every
\* returned longitude in (-180, 180]; the raw longitude stored first is in
\* [0, 360) for negative as for non-negative i, and the wrap never yields
\* exactly -180.
C3_CoordinateRanges ==
    (Returned /\ n_arg > 0) =>
        \A k \in DOMAIN points :
            /\ lat[k] >= -Deg(90) /\ lat[k] <= Deg(90)
            /\ lon[k] > -Deg(180) /\ lon[k] <= Deg(180)
            /\ rawlon[k] >= 0 /\ rawlon[k] < Deg(360)

\* a returned lattice in which a negative i had a raw longitude above 180
C3_Witness ==
    /\ lpc = "ret"
    /\ n_arg >= 2
    /\ \E k \in DOMAIN points :
          wlon[k] = <<-2>> /\ rawlon[k] > Deg(180) /\ lon[k] = rawlon[k] - Deg(360)

\* C5: a lattice computation called with n <= 0 fails and returns no point
\* arrays: neither compute_fib_grid nor compute_fib_grid_wgs84 returns.
C5_NonPositiveCountFails ==
    lpc \in {"ret", "ret_wgs84"} => n_arg > 0

\* the pairs (lon, lat) an array position holds
PairAt(k) == <<lon[k], lat[k]>>

\* C10: for n > 0 the loop writes every position of lat and of lon exactly
\* once, both arrays at one position from the same i, so nothing of the
\* uninitialised arrays is returned, and the returned pairs are as a multiset
\* {(lon(i), lat(i)) : -n <= i <= n}.
C10_EveryPositionWrittenOnce ==
    n_arg > 0 =>
        /\ \A k \in DOMAIN wlat : Len(wlat[k]) <= 1 /\ wlat[k] = wlon[k]
        /\ Returned =>
              /\ \A k \in DOMAIN wlat : Len(wlat[k]) = 1
              /\ \A i \in -n_arg..n_arg :
                    Cardinality({k \in DOMAIN lat : PairAt(k) = <<LonOf(i), LatOf(i, n_arg)>>})
                      = Cardinality({j \in -n_arg..n_arg :
                                        <<LonOf(j), LatOf(j, n_arg)>> = <<LonOf(i), LatOf(i, n_arg)>>})
              /\ \A k \in DOMAIN lat :
                    \E i \in -n_arg..n_arg : PairAt(k) = <<LonOf(i), LatOf(i, n_arg)>>

\* a returned lattice in which the negative i's addressed the upper positions
C10_Witness ==
    /\ lpc = "ret"
    /\ n_arg = 2
    /\ wlat[0] = <<0>> /\ wlat[2] = <<2>>
    /\ wlat[3] = <<-2>> /\ wlat[4] = <<-1>>

----------------------------------------------------------------------------
(* Claims about FibGrid, FibLandGrid and read_grid_file *)

\* C4 (SpecGrid): a call whose geodatum or sort_order is not an accepted
\* value fails with the matching ValueError at once: it emits no warning,
\* creates no cache directory, starts no download and raises nothing else.
C4_InvalidArgumentsFailFirst ==
    \A p \in Procs :
        LET c == call[p] IN
        (c.pc # "idle" /\ c.n # 0
           /\ (c.geodatum \notin {"sphere", "WGS84"} \/ c.sort_order \notin {"none", "latband"})) =>
            /\ ~c.warned /\ ~c.mkdir /\ ~c.downloaded
            /\ c.pc \in {"exists", "validate", "raised"}
            /\ c.pc = "raised" =>
                  c.err = IF c.geodatum \notin {"sphere", "WGS84"}
                          THEN "ValueError: Geodatum unknown"
                          ELSE "ValueError: Grid point sort order unknown"

\* C6 (SpecGrid): the constructors map 6.25 to n = 6600000, 12.5 to
\* n = 1650000 and 25 to n = 430000; any other resolution raises
\* ValueError("Resolution unknown") before read_grid_file is called: no cache
\* lookup, no warning, no directory, no download, whatever the other arguments.
C6_ResolutionMapping ==
    \A p \in Procs :
        LET c == call[p] IN
        c.pc # "idle" =>
            /\ c.res = 625 => c.n = 6600000
            /\ c.res = 1250 => c.n = 1650000
            /\ c.res = 2500 => c.n = 430000
            /\ c.res \in {625, 1250, 2500} => c.err # "ValueError: Resolution unknown"
            /\ c.res \notin {625, 1250, 2500} =>
                  /\ c.pc = "raised"
                  /\ c.err = "ValueError: Resolution unknown"
                  /\ ~c.found_absent /\ ~c.warned /\ ~c.mkdir /\ ~c.downloaded
                  /\ result[p] = NoResult

\* a FibLandGrid of 50 km with an unknown geodatum and sort order has raised
\* over an untouched cache
C6_Witness ==
    /\ call[1].pc = "raised"
    /\ call[1].kind = "FibLandGrid"
    /\ call[1].res = 5000
    /\ call[1].geodatum = "mars"
    /\ call[1].sort_order = "lonband"
    /\ ~dir_exists

\* C8 (SpecGrid): in the calls of one process, a download is started only
\* by a call that found the artifact absent, after that call has warned; the
\* artifact is parsed only when the cache holds it; and a call made after a
\* call for the same key has returned neither warns nor downloads.
C8_DownloadOnlyOnFirstUse ==
    \A p \in Procs :
        LET c == call[p] IN
        /\ c.downloaded => (c.found_absent /\ c.warned)
        /\ c.pc \in {"mkdir", "urlretrieve", "downloading"} => (c.found_absent /\ c.warned)
        /\ c.warned => c.found_absent
        /\ c.pc = "parse" => cache[filename(p)] # "absent"
        /\ c.pc = "returned" => cache[filename(p)] = "complete"
        /\ c.after_ok => (~c.warned /\ ~c.downloaded)

\* the second call for a key has returned, the first having downloaded it
C8_Witness ==
    /\ call[1].pc = "returned"
    /\ call[1].after_ok
    /\ calls[1] = 2
    /\ cache[filename(1)] = "complete"

\* C9 (SpecConc): no process that found the artifact in the cache parses it
\* while another process is still writing it.
C9_NoReadOfUnfinishedArtifact ==
    \A p, q \in Procs :
        (p # q /\ call[p].pc = "parse" /\ ~call[p].downloaded) =>
            ~(call[q].pc = "downloading" /\ filename(q) = filename(p))

\* C7 (SpecRead): for one artifact, the "latband" read holds at every
\* position k the record the "none" read holds at position idx[k], in lon,
\* lat, cell, gpi and each metadata field; both reads hold the same set of
\* (lon, lat, gpi) triples and map every gpi to the same geolocation.
C7_SortingPermutesRecords ==
    \A p, q \in Procs :
        (/\ call[p].pc = "returned" /\ call[p].sort_order = "latband"
         /\ call[q].pc = "returned" /\ call[q].sort_order = "none"
         /\ filename(p) = filename(q)) =>
            LET s == result[p]
                u == result[q]
                idx == latband_sorting
            IN  /\ DOMAIN s.lon = Pos /\ DOMAIN u.lon = Pos
                /\ \A k \in Pos :
                      /\ s.lon[k] = u.lon[idx[k]]
                      /\ s.lat[k] = u.lat[idx[k]]
                      /\ s.cell[k] = u.cell[idx[k]]
                      /\ s.gpi[k] = u.gpi[idx[k]]
                      /\ \A j \in 1..Len(metadata_fields) :
                            s.metadata[metadata_fields[j]][k]
                              = u.metadata[metadata_fields[j]][idx[k]]
                /\ {<<s.lon[k], s.lat[k], s.gpi[k]>> : k \in Pos}
                     = {<<u.lon[k], u.lat[k], u.gpi[k]>> : k \in Pos}
                /\ \A k, j \in Pos :
                      s.gpi[k] = u.gpi[j] => (s.lon[k] = u.lon[j] /\ s.lat[k] = u.lat[j])

\* both reads have returned for an artifact whose sorting moves every point
\* and whose land flags differ between points
C7_Witness ==
    /\ call[1].pc = "returned" /\ call[1].sort_order = "latband"
    /\ call[2].pc = "returned" /\ call[2].sort_order = "none"
    /\ \A k \in Pos : latband_sorting[k] # k
    /\ land_flag[0] # land_flag[1]
    /\ result[1].gpi # result[2].gpi

====
